---- MODULE Spec2Model ----
(***************************************************************************)
(* Streaming ingestion of the meeting summarizer: the sliding-window       *)
(* TranscriptBuffer (src/streaming/transcript_buffer.py), the real-time    *)
(* pipeline that feeds it (src/streaming/realtime_pipeline.py), the        *)
(* transcript segmenter (src/preprocess/segmenter.py) and the WebSocket    *)
(* server that broadcasts to clients (src/streaming/websocket_server.py).  *)
(*                                                                         *)
(* A text is a sequence of characters; the character SP is whitespace and  *)
(* every other character is a positive number.  A word is a non-empty run  *)
(* of non-whitespace characters.                                           *)
(***************************************************************************)
EXTENDS Integers, Sequences, FiniteSets, TLC

(* ------------------------------ bounds --------------------------------- *)
\* largest buffer_size / overlap argument passed to the constructor
MaxCap == 3
\* largest value a deployment gives to a streaming_* setting
MaxDefault == 2
\* largest number of words of one add_text call (besides the 23-word burst)
MaxBurst == 3
\* words ingested by one buffer before the model stops feeding it words
MaxTotal == 8
\* chunks emitted by one buffer before the model stops feeding it
MaxChunks == 4
\* get_remaining calls on one buffer before the model stops flushing it
MaxFlush == 2
\* process_text_async calls made on one pipeline
MaxCalls == 2
\* process_text_async calls of one pipeline in progress at the same time
MaxInFlight == 2
\* largest number of words of one fragment passed to process_text_async
MaxFragment == 2
\* words passed to one pipeline before the model stops feeding it words
MaxStream == 4
\* reset calls made on one pipeline
MaxResets == 1
\* speaker turns of one transcript passed to segment_by_time
MaxSegments == 3
\* messages of one export passed to parse_teams_format
MaxMessages == 2
\* calls of segmenter functions made one after the other
MaxSegCalls == 2
\* websocket connections made to one server
MaxClients == 3
\* broadcast_to_meeting calls made on one server
MaxBroadcasts == 2

(* --------------------------- optional values --------------------------- *)
\* Python's None for an int-valued argument or attribute
NoInt == [none |-> TRUE, val |-> 0]
SomeInt(n) == [none |-> FALSE, val |-> n]
\* Python's None for a str-valued result
NoText == [none |-> TRUE, text |-> <<>>]
SomeText(t) == [none |-> FALSE, text |-> t]

(* ------------------------------- texts --------------------------------- *)
SP == 0

\* the word with identity i: one or two characters long
Word(i) == IF i % 2 = 0 THEN <<i, i>> ELSE <<i>>

\* the words first .. first+n-1, in order
WordsFrom(first, n) == [k \in 1..n |-> Word(first + k - 1)]

RECURSIVE Flatten(_)
Flatten(ss) == IF ss = <<>> THEN <<>> ELSE Head(ss) \o Flatten(Tail(ss))

\* " ".join(words)
Join(words) ==
    Flatten([k \in 1..Len(words) |->
                IF k = 1 THEN words[k] ELSE <<SP>> \o words[k]])

\* a text of the given words with irregular whitespace: leading and trailing
\* blanks and two blanks between words
Ragged(words) ==
    <<SP>> \o Flatten([k \in 1..Len(words) |-> words[k] \o <<SP, SP>>])

\* positions where a run of non-whitespace characters starts / ends
RunStarts(text) ==
    {i \in 1..Len(text) : text[i] # SP /\ (i = 1 \/ text[i - 1] = SP)}
RunEnds(text) ==
    {i \in 1..Len(text) : text[i] # SP /\ (i = Len(text) \/ text[i + 1] = SP)}

\* the k-th smallest element of a set of numbers
Nth(S, k) == CHOOSE x \in S : Cardinality({y \in S : y <= x}) = k

\* str.split(): the maximal runs of non-whitespace characters, in order
Split(text) ==
    [k \in 1..Cardinality(RunStarts(text)) |->
        SubSeq(text, Nth(RunStarts(text), k), Nth(RunEnds(text), k))]

(* ------------------------------ settings ------------------------------- *)
\* src/config.py declares no streaming_buffer_size and no streaming_overlap
\* field, so reading either attribute raises AttributeError
DeclaredSettings ==
    [streaming_buffer_size |-> NoInt, streaming_overlap |-> NoInt]

\* a deployment in which the two attributes read by the buffer are present,
\* with a capacity and a smaller overlap
ProvidedSettings ==
    { [streaming_buffer_size |-> SomeInt(MaxDefault),
       streaming_overlap |-> SomeInt(o)] : o \in 0..(MaxDefault - 1) }

SettingsValues == {DeclaredSettings} \cup ProvidedSettings

(* -------------------------- TranscriptBuffer --------------------------- *)
\* Python's "arg or default": None and 0 are falsy
Falsy(arg) == arg.none \/ arg.val = 0

\* value of "arg or settings.attr"; none stands for the AttributeError
OrDefault(arg, attr) == IF Falsy(arg) THEN attr ELSE arg

\* the object that stands for "no buffer was built"
NoBuffer ==
    [buffer_size |-> 0, overlap |-> 0, buffer |-> <<>>,
     total_words |-> 0, chunks_generated |-> 0]

\* TranscriptBuffer.__init__
TranscriptBuffer(buffer_size, overlap, st) ==
    LET size == OrDefault(buffer_size, st.streaming_buffer_size)
        ovl  == OrDefault(overlap, st.streaming_overlap)
    IN  IF size.none \/ ovl.none
        THEN [raised |-> "AttributeError", obj |-> NoBuffer]
        ELSE [raised |-> "none",
              obj |-> [buffer_size |-> size.val, overlap |-> ovl.val,
                       buffer |-> <<>>, total_words |-> 0,
                       chunks_generated |-> 0]]

\* for _ in range(n): if self.buffer: self.buffer.popleft()
RECURSIVE PopLeft(_, _)
PopLeft(buf, n) ==
    IF n <= 0 THEN buf
    ELSE IF buf # <<>> THEN PopLeft(Tail(buf), n - 1)
         ELSE PopLeft(buf, n - 1)

\* list(self.buffer)[:n] for n >= 0
Prefix(buf, n) == SubSeq(buf, 1, IF n < Len(buf) THEN n ELSE Len(buf))

\* _extract_chunk that keeps no overlap: removes the whole chunk
extract_chunk_no_overlap(self) ==
    [ret |-> Join(Prefix(self.buffer, self.buffer_size)),
     obj |-> [self EXCEPT
                !.buffer = PopLeft(self.buffer, self.buffer_size),
                !.chunks_generated = self.chunks_generated + 1]]

\* _extract_chunk whose removal loop stops one word early
extract_chunk_off_by_one(self) ==
    [ret |-> Join(Prefix(self.buffer, self.buffer_size)),
     obj |-> [self EXCEPT
                !.buffer = PopLeft(self.buffer,
                                   self.buffer_size - self.overlap - 1),
                !.chunks_generated = self.chunks_generated + 1]]

\* TranscriptBuffer._extract_chunk
extract_chunk(self) ==
    [ret |-> Join(Prefix(self.buffer, self.buffer_size)),
     obj |-> [self EXCEPT
                !.buffer = PopLeft(self.buffer, self.buffer_size - self.overlap),
                !.chunks_generated = self.chunks_generated + 1]]

\* add_text that extracts a second chunk when the buffer is still full
add_text_twice(self, text) ==
    LET words == Split(text)
        fed   == [self EXCEPT !.buffer = self.buffer \o words,
                              !.total_words = self.total_words + Len(words)]
    IN  IF Len(fed.buffer) >= fed.buffer_size
        THEN LET x == extract_chunk(fed)
             IN  IF Len(x.obj.buffer) >= fed.buffer_size
                 THEN LET y == extract_chunk(x.obj)
                      IN  [ret |-> SomeText(y.ret), obj |-> y.obj]
                 ELSE [ret |-> SomeText(x.ret), obj |-> x.obj]
        ELSE [ret |-> NoText, obj |-> fed]

\* add_text that counts characters instead of words
add_text_count_chars(self, text) ==
    LET words == Split(text)
        fed   == [self EXCEPT !.buffer = self.buffer \o words,
                              !.total_words = self.total_words + Len(text)]
    IN  IF Len(fed.buffer) >= fed.buffer_size
        THEN LET x == extract_chunk(fed)
             IN  [ret |-> SomeText(x.ret), obj |-> x.obj]
        ELSE [ret |-> NoText, obj |-> fed]

\* TranscriptBuffer.add_text
add_text(self, text) ==
    LET words == Split(text)
        fed   == [self EXCEPT !.buffer = self.buffer \o words,
                              !.total_words = self.total_words + Len(words)]
    IN  IF Len(fed.buffer) >= fed.buffer_size
        THEN LET x == extract_chunk(fed)
             IN  [ret |-> SomeText(x.ret), obj |-> x.obj]
        ELSE [ret |-> NoText, obj |-> fed]

\* get_remaining that returns the pending words without clearing them
get_remaining_peek(self) ==
    IF self.buffer = <<>>
    THEN [ret |-> NoText, obj |-> self]
    ELSE [ret |-> SomeText(Join(self.buffer)), obj |-> self]

\* TranscriptBuffer.get_remaining
get_remaining(self) ==
    IF self.buffer = <<>>
    THEN [ret |-> NoText, obj |-> self]
    ELSE [ret |-> SomeText(Join(self.buffer)),
          obj |-> [self EXCEPT !.buffer = <<>>]]

\* TranscriptBuffer.clear
\* clear that leaves the two counters as they are
clear_keep_counters(self) ==
    [self EXCEPT !.buffer = <<>>]

clear(self) ==
    [self EXCEPT !.buffer = <<>>, !.total_words = 0, !.chunks_generated = 0]

\* TranscriptBuffer.get_stats
get_stats(self) ==
    [total_words_processed |-> self.total_words,
     chunks_generated |-> self.chunks_generated,
     current_buffer_size |-> Len(self.buffer),
     buffer_capacity |-> self.buffer_size]

(* ------------------------------- state --------------------------------- *)
VARIABLES
    settings,       \* the streaming_* attributes of src.config.settings
    argSize,        \* buffer_size argument the buffer was constructed with
    argOverlap,     \* overlap argument the buffer was constructed with
    raised,         \* outcome of the construction: "none" or the exception
    tb,             \* the TranscriptBuffer object
    lastOp,         \* the operation that produced the current state
    ret,            \* what that operation returned
    pendingBefore,  \* add_text: pending words after the append, before removal
    ingested,       \* every word passed to add_text so far, in order
    emitted,        \* the chunks add_text has returned so far, in order
    nFlush          \* number of get_remaining calls so far

bufVars == <<settings, argSize, argOverlap, raised, tb, lastOp, ret,
             pendingBefore, ingested, emitted, nFlush>>

VARIABLES
    on_chunk_summarized,  \* whether the pipeline was given this callback
    on_entity_extracted,  \* whether the pipeline was given this callback
    chunk_summaries,      \* self.chunk_summaries
    all_entities,         \* self.all_entities
    complete_transcript,  \* self.complete_transcript
    calls,                \* the process_text_async calls and where each stands
    dispatched,           \* the chunks handed to _process_chunk so far, in order
    nReset                \* number of reset calls so far

plVars == <<on_chunk_summarized, on_entity_extracted, chunk_summaries,
            all_entities, complete_transcript, calls, dispatched, nReset>>

\* what no step of a pipeline changes besides reset
plFixed == <<on_chunk_summarized, on_entity_extracted, nReset>>

VARIABLES
    segOp,   \* the segmenter function called last, "none" before any call
    segArg,  \* the arguments of that call
    segRet,  \* what that call returned or raised
    segCalls \* number of calls of segmenter functions so far

segVars == <<segOp, segArg, segRet, segCalls>>

VARIABLES
    connections, \* WebSocketServer.connections: the clients of each meeting
    client,      \* of each websocket: where its handle_client is, and the
                 \* meeting of its path once it is registered
    bc,          \* the broadcast_to_meeting call: where it is and its locals
    nBroadcast   \* number of broadcast_to_meeting calls so far

wsVars == <<connections, client, bc, nBroadcast>>

vars == <<bufVars, plVars, segVars, wsVars>>

\* no function of the segmenter has been called
NoSegmenter ==
    /\ segOp = "none"
    /\ segArg = <<>>
    /\ segRet = <<>>
    /\ segCalls = 0

\* a dict with no key
EmptyMap == [x \in {} |-> 0]

\* the websockets that connect to the server
Clients == 1..MaxClients

\* a broadcast_to_meeting call that has not been made
NoBroadcast ==
    [pc |-> "idle", meeting_id |-> "", si_used |-> 0, detached |-> FALSE,
     started |-> {}, current |-> 0, sent |-> {}, disconnected |-> {},
     error |-> "none"]

\* a server after __init__: no connection, no handler, no broadcast
NoServer ==
    /\ connections = EmptyMap
    /\ client = [w \in Clients |-> [pc |-> "new", meeting_id |-> ""]]
    /\ bc = NoBroadcast
    /\ nBroadcast = 0

\* a process_text_async call that has not been made yet.  pc is the await
\* the call is suspended at: "summarize" (line 85), "ner" (line 90),
\* "cb_summary" (line 109), "cb_entity" (line 112), "meta" (line 143); or
\* "done" (returned) or "raised" (left by an exception); or "merge": the
\* event loop is running the call between the append of line 102 and the
\* merge of line 105.  stage tells which _process_chunk call of
\* process_text_async is running: the one for the emitted chunk (line 64) or
\* the one for the flushed remainder (line 70).  entities is the local
\* variable of _process_chunk, held while the call is at "merge".
IdleCall ==
    [pc |-> "idle", is_final |-> FALSE, stage |-> "emit", chunk |-> <<>>,
     summary |-> <<>>, entities |-> [entities_by_type |-> EmptyMap],
     final_summary |-> NoText]

\* the pipeline fields when no pipeline is in use
NoPipeline ==
    /\ on_chunk_summarized = FALSE
    /\ on_entity_extracted = FALSE
    /\ chunk_summaries = <<>>
    /\ all_entities = EmptyMap
    /\ complete_transcript = <<>>
    /\ calls = [c \in 1..MaxCalls |-> IdleCall]
    /\ dispatched = <<>>
    /\ nReset = 0

\* arguments a caller passes to TranscriptBuffer(...): None, 0, small values
\* and the capacity 10 of the end-to-end scenario
SizeArgs == {NoInt} \cup {SomeInt(n) : n \in (0..MaxCap) \cup {10}}
OverlapArgs == {NoInt} \cup {SomeInt(n) : n \in 0..(MaxCap + 1)}

\* sizes of the texts passed to add_text: short ones and the 23-word burst
Bursts == (0..MaxBurst) \cup {23}

InitBuffer ==
    /\ settings = DeclaredSettings
    /\ argSize \in SizeArgs
    /\ argOverlap \in OverlapArgs
    /\ LET made == TranscriptBuffer(argSize, argOverlap, settings)
       IN  /\ raised = made.raised
           /\ tb = made.obj
    /\ lastOp = "new"
    /\ ret = NoText
    /\ pendingBefore = <<>>
    /\ ingested = <<>>
    /\ emitted = <<>>
    /\ nFlush = 0
    /\ NoPipeline
    /\ NoSegmenter
    /\ NoServer

\* one call tb.add_text(text), where text was written from the given words
AddTextCall(text, words) ==
    LET r == add_text(tb, text)
    IN  /\ tb' = r.obj
        /\ ret' = r.ret
        /\ lastOp' = "add_text"
        /\ pendingBefore' = tb.buffer \o words
        /\ ingested' = ingested \o words
        /\ emitted' = IF r.ret.none THEN emitted ELSE Append(emitted, r.ret.text)
        /\ UNCHANGED <<settings, argSize, argOverlap, raised, nFlush>>
        /\ UNCHANGED <<plVars, segVars, wsVars>>

AddText ==
    /\ raised = "none"
    /\ tb.chunks_generated < MaxChunks
    /\ \E n \in Bursts :
         /\ \/ n = 0
            \/ Len(ingested) + n <= MaxTotal
            \/ n = 23 /\ ingested = <<>>
         /\ LET words == WordsFrom(Len(ingested) + 1, n)
            IN  \E text \in {Join(words), Ragged(words)} :
                    AddTextCall(text, words)

\* one call tb.get_remaining()
GetRemaining ==
    /\ raised = "none"
    /\ nFlush < MaxFlush
    /\ LET r == get_remaining(tb)
       IN  /\ tb' = r.obj
           /\ ret' = r.ret
    /\ lastOp' = "get_remaining"
    /\ nFlush' = nFlush + 1
    /\ UNCHANGED <<settings, argSize, argOverlap, raised, pendingBefore,
                   ingested, emitted>>
    /\ UNCHANGED <<plVars, segVars, wsVars>>

NextBuffer == AddText \/ GetRemaining

SpecBuffer == InitBuffer /\ [][NextBuffer]_vars

(* ----------------------- TranscriptBuffer claims ----------------------- *)
\* the words of the pieces laid end to end, dropping the first o words of
\* every piece after the first
Reconstruct(pieces, o) ==
    Flatten([k \in 1..Len(pieces) |->
                LET w == Split(pieces[k])
                IN  IF k = 1 THEN w ELSE SubSeq(w, o + 1, Len(w))])

\* the pieces a consumer holds after a flush: the chunks, then the remainder
Pieces == IF ret.none THEN emitted ELSE Append(emitted, ret.text)

\* C1: an add_text call that leaves at least buffer_size words pending after
\* the append returns the first buffer_size of them joined by single spaces,
\* removes exactly buffer_size - overlap words from the front, so that the
\* last overlap words of the chunk head the pending words, and adds 1 to
\* chunks_generated; with fewer words pending it returns nothing and leaves
\* chunks_generated alone.
C1AddTextContract ==
    [][lastOp' = "add_text" =>
        LET pend == pendingBefore'
            size == tb.buffer_size
            ovl  == tb.overlap
        IN  IF Len(pend) >= size
            THEN /\ ~ret'.none
                 /\ ret'.text = Join(SubSeq(pend, 1, size))
                 /\ Len(tb'.buffer) = Len(pend) - (size - ovl)
                 /\ tb'.buffer = SubSeq(pend, size - ovl + 1, Len(pend))
                 /\ SubSeq(tb'.buffer, 1, ovl) = SubSeq(pend, size - ovl + 1, size)
                 /\ tb'.chunks_generated = tb.chunks_generated + 1
            ELSE /\ ret'.none
                 /\ tb'.buffer = pend
                 /\ tb'.chunks_generated = tb.chunks_generated]_vars

\* C2: one add_text call emits at most one chunk whatever the input size;
\* the pending words afterwards are a suffix of the pending words before the
\* removal, in order, and every word past the first buffer_size stays.
C2OneChunkPerCall ==
    [][lastOp' = "add_text" =>
        LET pend == pendingBefore'
            kept == Len(tb'.buffer)
        IN  /\ tb'.chunks_generated <= tb.chunks_generated + 1
            /\ Len(emitted') <= Len(emitted) + 1
            /\ kept <= Len(pend)
            /\ tb'.buffer = SubSeq(pend, Len(pend) - kept + 1, Len(pend))
            /\ Len(pend) - kept <= tb.buffer_size
            /\ ret'.none => tb'.buffer = pend]_vars

\* C2 witness: a burst of at least twice the capacity produced one chunk and
\* left a full buffer behind
C2Witness ==
    /\ lastOp = "add_text"
    /\ ~ret.none
    /\ tb.overlap < tb.buffer_size
    /\ Len(pendingBefore) >= 2 * tb.buffer_size
    /\ tb.chunks_generated = 1
    /\ Len(tb.buffer) >= tb.buffer_size

\* the state right after the single 23-word call on a fresh (10, 2) buffer
ScenarioDone ==
    /\ raised = "none"
    /\ argSize = SomeInt(10)
    /\ argOverlap = SomeInt(2)
    /\ lastOp = "add_text"
    /\ Len(ingested) = 23
    /\ pendingBefore = ingested

\* what both readings of the scenario agree on: one chunk, w1..w10, and
\* w9..w23 left pending
ScenarioChunk ==
    /\ emitted = <<Join(WordsFrom(1, 10))>>
    /\ ret = SomeText(Join(WordsFrom(1, 10)))
    /\ Len(Split(ret.text)) = 10
    /\ tb.buffer = [k \in 1..(23 - 9 + 1) |-> Word(9 + k - 1)]
    /\ get_stats(tb).chunks_generated = 1
    /\ get_stats(tb).total_words_processed = 23

\* C3 as claimed: on a fresh buffer with capacity 10 and overlap 2, one
\* add_text call with 23 distinct words emits exactly the chunk w1..w10 and
\* leaves w9..w23 pending, which is 14 pending words.
C3ScenarioAsClaimed ==
    ScenarioDone =>
        /\ ScenarioChunk
        /\ get_stats(tb).current_buffer_size = 14

\* C3: on a fresh buffer with capacity 10 and overlap 2, one add_text call
\* with 23 distinct words emits exactly the chunk w1..w10 and leaves
\* w9..w23 pending, which is 15 pending words.
C3Scenario ==
    ScenarioDone =>
        /\ ScenarioChunk
        /\ get_stats(tb).current_buffer_size = 15

\* C3 witness: the scenario has been run
C3Witness == ScenarioDone /\ ~ret.none

\* C4 as claimed: right after an emitting add_text call on a buffer with
\* 0 <= overlap < buffer_size, fewer than buffer_size words are pending.
C4OccupancyAsClaimed ==
    (/\ lastOp = "add_text"
     /\ ~ret.none
     /\ 0 <= tb.overlap
     /\ tb.overlap < tb.buffer_size) => Len(tb.buffer) < tb.buffer_size

\* C4: right after an emitting add_text call that found fewer than
\* 2 * buffer_size - overlap words pending after the append, fewer than
\* buffer_size words are pending.
C4Occupancy ==
    (/\ lastOp = "add_text"
     /\ ~ret.none
     /\ Len(pendingBefore) < 2 * tb.buffer_size - tb.overlap)
        => Len(tb.buffer) < tb.buffer_size

\* C4 witness: an emission from more than buffer_size pending words that
\* left the buffer below capacity
C4Witness ==
    /\ lastOp = "add_text"
    /\ ~ret.none
    /\ Len(pendingBefore) > tb.buffer_size
    /\ Len(pendingBefore) < 2 * tb.buffer_size - tb.overlap
    /\ Len(tb.buffer) > tb.overlap - 1
    /\ Len(tb.buffer) < tb.buffer_size

\* C5: a construction with overlap >= capacity fails, every buffer that
\* exists has overlap < buffer_size, and every emission removes at least one
\* pending word.
C5ConfigRejected ==
    /\ (/\ ~Falsy(argSize)
        /\ ~argOverlap.none
        /\ argOverlap.val >= argSize.val) => raised # "none"
    /\ raised = "none" => tb.overlap < tb.buffer_size
    /\ (lastOp = "add_text" /\ ~ret.none) => Len(tb.buffer) < Len(pendingBefore)

\* C6: a construction with explicit capacity c > 0 and explicit overlap o,
\* 0 <= o < c, yields a buffer with buffer_size = c and overlap = o.
C6ExplicitConfig ==
    (/\ ~argSize.none
     /\ ~argOverlap.none
     /\ argSize.val > 0
     /\ 0 <= argOverlap.val
     /\ argOverlap.val < argSize.val)
        => /\ raised = "none"
           /\ tb.buffer_size = argSize.val
           /\ tb.overlap = argOverlap.val

\* C7: get_remaining returns all pending words joined into one string and
\* empties the buffer, returns nothing on an empty buffer, changes neither
\* counter, and returns nothing when it directly follows another
\* get_remaining.
C7Flush ==
    [][lastOp' = "get_remaining" =>
        /\ tb'.buffer = <<>>
        /\ tb.buffer = <<>> => ret'.none
        /\ tb.buffer # <<>> =>
              /\ ~ret'.none
              /\ Split(ret'.text) = tb.buffer
              /\ Len(ret'.text) = Len(Flatten(tb.buffer)) + Len(tb.buffer) - 1
        /\ tb'.chunks_generated = tb.chunks_generated
        /\ tb'.total_words = tb.total_words
        /\ lastOp = "get_remaining" => ret'.none]_vars

\* C7 witness: a flush returned a remainder after a chunk had been emitted
C7Witness ==
    /\ lastOp = "get_remaining"
    /\ ~ret.none
    /\ tb.buffer = <<>>
    /\ tb.chunks_generated > 0
    /\ Len(Split(ret.text)) > 1

\* C8: across add_text and get_remaining calls, total_words equals the number
\* of words passed to add_text so far, chunks_generated equals the number of
\* add_text calls that returned a chunk, and neither ever decreases.
C8Counters ==
    /\ [](raised = "none" =>
            /\ tb.total_words = Len(ingested)
            /\ tb.chunks_generated = Len(emitted))
    /\ [][/\ tb'.total_words >= tb.total_words
           /\ tb'.chunks_generated >= tb.chunks_generated]_vars

\* C8 witness: words were fed with irregular whitespace, chunks were emitted
\* and a flush followed
C8Witness ==
    /\ lastOp = "get_remaining"
    /\ tb.total_words > 3
    /\ tb.chunks_generated > 1
    /\ nFlush > 0

\* C9: for every capacity > overlap >= 0 asked for, a buffer exists, every
\* emitted chunk has exactly capacity words, and after add_text calls
\* followed by one flush the chunks and the remainder, laid end to end
\* without the first overlap words of every piece after the first, are the
\* ingested words.
C9Reconstruction ==
    (/\ ~argSize.none
     /\ ~argOverlap.none
     /\ 0 <= argOverlap.val
     /\ argOverlap.val < argSize.val)
        => /\ raised = "none"
           /\ \A k \in 1..Len(emitted) : Len(Split(emitted[k])) = argSize.val
           /\ (lastOp = "get_remaining" /\ nFlush = 1) =>
                 Reconstruct(Pieces, argOverlap.val) = ingested

(* -------------------- RealtimeSummarizationPipeline -------------------- *)
\* generate_summary, an external model: the summary of a text is a one-word
\* text that tells which text it summarises
generate_summary(text) == IF text = <<>> THEN <<>> ELSE <<100 + text[1]>>

\* a call that has returned ("done") or raised: its frames and their local
\* variables are gone
Leave(call, how) ==
    [call EXCEPT !.pc = how, !.stage = "emit", !.chunk = <<>>, !.summary = <<>>]

\* results NERExtractor.extract_and_format may give for a chunk
NerResults ==
    { [entities_by_type |->
         ("PERSON" :> <<[entity |-> "alice", count |-> 1]>>)],
      [entities_by_type |->
         ("PERSON" :> <<[entity |-> "alice", count |-> 2]>>) @@
         ("ORG" :> <<[entity |-> "acme", count |-> 1]>>)] }

\* NERExtractor.extract_and_format, an external model: the result is a
\* function of the text, here of the word the text starts with
extract_and_format(text) ==
    CHOOSE r \in NerResults :
        ("ORG" \in DOMAIN r.entities_by_type) <=>
            (text # <<>> /\ (text[1] \div 2) % 2 = 1)

\* the inner loop of _merge_entities over one entity list
RECURSIVE MergeList(_, _)
MergeList(known, entity_list) ==
    IF entity_list = <<>> THEN known
    ELSE LET info == Head(entity_list)
             next == IF info.entity \notin DOMAIN known
                     THEN known @@ (info.entity :> info.count)
                     ELSE [known EXCEPT ![info.entity] = @ + info.count]
         IN  MergeList(next, Tail(entity_list))

\* _merge_entities that starts every type of the new result from an empty dict
merge_entities_fresh_type(all, new_entities) ==
    LET by_type == new_entities.entities_by_type
    IN  [t \in DOMAIN all \cup DOMAIN by_type |->
            IF t \in DOMAIN by_type
            THEN MergeList(EmptyMap, by_type[t])
            ELSE all[t]]

\* RealtimeSummarizationPipeline._merge_entities
merge_entities(all, new_entities) ==
    LET by_type == new_entities.entities_by_type
    IN  [t \in DOMAIN all \cup DOMAIN by_type |->
            IF t \in DOMAIN by_type
            THEN MergeList(IF t \in DOMAIN all THEN all[t] ELSE EmptyMap,
                           by_type[t])
            ELSE all[t]]

\* _generate_final_summary that also summarises the summary of a single chunk
generate_final_summary_from_one(call, summaries) ==
    LET all_summaries == Join([k \in 1..Len(summaries) |-> summaries[k].summary])
    IN  IF Len(summaries) >= 1
        THEN [call EXCEPT !.pc = "meta", !.chunk = all_summaries]
        ELSE [Leave(call, "done") EXCEPT
                 !.final_summary = SomeText(all_summaries)]

\* _generate_final_summary that summarises unless there is exactly one chunk
generate_final_summary_unless_one(call, summaries) ==
    LET all_summaries == Join([k \in 1..Len(summaries) |-> summaries[k].summary])
    IN  IF Len(summaries) # 1
        THEN [call EXCEPT !.pc = "meta", !.chunk = all_summaries]
        ELSE [Leave(call, "done") EXCEPT
                 !.final_summary = SomeText(all_summaries)]

\* _generate_final_summary up to its await: with more than one chunk the
\* call waits for the meta-summary of the joined chunk summaries, otherwise
\* the joined summaries are the final summary
generate_final_summary(call, summaries) ==
    LET all_summaries == Join([k \in 1..Len(summaries) |-> summaries[k].summary])
    IN  IF Len(summaries) > 1
        THEN [call EXCEPT !.pc = "meta", !.chunk = all_summaries]
        ELSE [Leave(call, "done") EXCEPT
                 !.final_summary = SomeText(all_summaries)]

\* process_text_async from "if is_final" (line 67) to its next await
after_emit(call, buf, summaries) ==
    IF call.is_final
    THEN LET r == get_remaining(buf)
         IN  IF ~r.ret.none /\ r.ret.text # <<>>
             THEN [call |-> [call EXCEPT !.pc = "summarize",
                                         !.stage = "flush",
                                         !.chunk = r.ret.text],
                   buf |-> r.obj]
             ELSE [call |-> generate_final_summary(call, summaries),
                   buf |-> r.obj]
    ELSE [call |-> Leave(call, "done"), buf |-> buf]

\* process_text_async from the return of a _process_chunk call to its next
\* await
after_chunk(call, buf, summaries) ==
    IF call.stage = "emit"
    THEN after_emit(call, buf, summaries)
    ELSE [call |-> generate_final_summary(call, summaries), buf |-> buf]

\* process_text_async from its first line to its first await
process_text_async(call, buf, text, is_final, summaries) ==
    LET r     == add_text(buf, text)
        begun == [call EXCEPT !.is_final = is_final, !.stage = "emit"]
    IN  IF ~r.ret.none /\ r.ret.text # <<>>
        THEN [call |-> [begun EXCEPT !.pc = "summarize", !.chunk = r.ret.text],
              buf |-> r.obj, chunk |-> r.ret]
        ELSE LET a == after_emit(begun, r.obj, summaries)
             IN  [call |-> a.call, buf |-> a.buf, chunk |-> r.ret]

\* RealtimeSummarizationPipeline.__init__: the buffer is TranscriptBuffer()
InitPipeline ==
    /\ settings \in SettingsValues
    /\ argSize = NoInt
    /\ argOverlap = NoInt
    /\ LET made == TranscriptBuffer(argSize, argOverlap, settings)
       IN  /\ raised = made.raised
           /\ tb = made.obj
    /\ lastOp = "new"
    /\ ret = NoText
    /\ pendingBefore = <<>>
    /\ ingested = <<>>
    /\ emitted = <<>>
    /\ nFlush = 0
    /\ on_chunk_summarized \in BOOLEAN
    /\ on_entity_extracted \in BOOLEAN
    /\ chunk_summaries = <<>>
    /\ all_entities = EmptyMap
    /\ complete_transcript = <<>>
    /\ calls = [c \in 1..MaxCalls |-> IdleCall]
    /\ dispatched = <<>>
    /\ nReset = 0
    /\ NoSegmenter
    /\ NoServer

bufHistory == <<settings, argSize, argOverlap, raised, lastOp, ret,
                pendingBefore, nFlush>>

\* a call that has been made and has neither returned nor raised
InProgress(call) == call.pc \notin {"idle", "done", "raised"}

\* the text of a fragment with the given words: single blanks for an even
\* number of words, irregular whitespace for an odd number
Fragment(words) ==
    IF Len(words) % 2 = 0 THEN Join(words) ELSE Ragged(words)

\* the event loop thread is not in the middle of a call's lines 95-105
EventLoopFree == \A c \in 1..MaxCalls : calls[c].pc # "merge"

\* the chunks handed to _process_chunk, after a call moved from was to now
Dispatch(was, now) ==
    IF now.pc = "summarize" /\ was.pc # "summarize"
    THEN Append(dispatched, now.chunk)
    ELSE dispatched

\* a caller makes the next process_text_async call; it runs to its first await
ProcessText(c) ==
    /\ raised = "none"
    /\ EventLoopFree
    /\ calls[c].pc = "idle"
    /\ \A b \in 1..(c - 1) : calls[b].pc # "idle"
    /\ Cardinality({b \in 1..MaxCalls : InProgress(calls[b])}) < MaxInFlight
    /\ \E n \in 0..MaxFragment, is_final \in BOOLEAN :
         /\ Len(ingested) + n <= MaxStream
         /\ LET words == WordsFrom(Len(ingested) + 1, n)
                text  == Fragment(words)
                p     == process_text_async(calls[c], tb, text, is_final,
                                            chunk_summaries)
            IN  /\ complete_transcript' = Append(complete_transcript, text)
                /\ tb' = p.buf
                /\ calls' = [calls EXCEPT ![c] = p.call]
                /\ dispatched' = Dispatch(calls[c], p.call)
                /\ ingested' = ingested \o words
                /\ emitted' = IF p.chunk.none THEN emitted
                              ELSE Append(emitted, p.chunk.text)
    /\ UNCHANGED <<segVars, wsVars>>
    /\ UNCHANGED <<bufHistory, plFixed, chunk_summaries, all_entities>>

\* generate_summary returns in its worker thread (line 85); the call goes on
\* to await extract_and_format (line 90)
SummaryReturns(c) ==
    /\ EventLoopFree
    /\ calls[c].pc = "summarize"
    /\ calls' = [calls EXCEPT ![c].pc = "ner",
                              ![c].summary = generate_summary(calls[c].chunk)]
    /\ UNCHANGED <<segVars, wsVars>>
    /\ UNCHANGED <<bufVars, plFixed, chunk_summaries, all_entities,
                   complete_transcript, dispatched>>

\* where a call goes when the awaited function raises: the exception leaves
\* _process_chunk and process_text_async
Raises(c, at) ==
    /\ EventLoopFree
    /\ calls[c].pc = at
    /\ calls' = [calls EXCEPT ![c] = Leave(calls[c], "raised")]
    /\ UNCHANGED <<segVars, wsVars>>
    /\ UNCHANGED <<bufVars, plFixed, chunk_summaries, all_entities,
                   complete_transcript, dispatched>>

SummaryRaises(c) == Raises(c, "summarize")
NerRaises(c) == Raises(c, "ner")
ChunkCallbackRaises(c) == Raises(c, "cb_summary")
EntityCallbackRaises(c) == Raises(c, "cb_entity")
MetaRaises(c) == Raises(c, "meta")

\* the call leaves _process_chunk and runs to its next await
ReturnFromChunk(c) ==
    LET a == after_chunk(calls[c], tb, chunk_summaries')
    IN  /\ calls' = [calls EXCEPT ![c] = a.call]
        /\ tb' = a.buf
        /\ dispatched' = Dispatch(calls[c], a.call)

\* lines 95-102 of _process_chunk with chunk_number off by one
store_chunk_zero_based(summaries, call, entities) ==
    Append(summaries,
           [chunk_number |-> Len(summaries),
            summary |-> call.summary,
            entities |-> entities,
            word_count |-> Len(Split(call.chunk))])

\* lines 95-102 of _process_chunk: build chunk_data and append it
store_chunk(summaries, call, entities) ==
    Append(summaries,
           [chunk_number |-> Len(summaries) + 1,
            summary |-> call.summary,
            entities |-> entities,
            word_count |-> Len(Split(call.chunk))])

\* extract_and_format returns (line 90); the event loop runs lines 95-102,
\* which store the chunk result
NerReturns(c) ==
    /\ EventLoopFree
    /\ calls[c].pc = "ner"
    /\ LET entities == extract_and_format(calls[c].chunk)
       IN  /\ chunk_summaries' = store_chunk(chunk_summaries, calls[c], entities)
           /\ calls' = [calls EXCEPT ![c].pc = "merge", ![c].entities = entities]
    /\ UNCHANGED <<segVars, wsVars>>
    /\ UNCHANGED <<bufVars, plFixed, all_entities, complete_transcript,
                   dispatched>>

\* the event loop goes on with line 105, the merge of the chunk's entities,
\* then the call awaits the first callback that is set, or leaves
\* _process_chunk
MergeChunk(c) ==
    /\ calls[c].pc = "merge"
    /\ all_entities' = merge_entities(all_entities, calls[c].entities)
    /\ chunk_summaries' = chunk_summaries
    /\ LET merged == [calls[c] EXCEPT !.entities = IdleCall.entities]
       IN  IF on_chunk_summarized
           THEN /\ calls' = [calls EXCEPT ![c] = [merged EXCEPT !.pc = "cb_summary"]]
                /\ UNCHANGED <<tb, dispatched>>
           ELSE IF on_entity_extracted
                THEN /\ calls' = [calls EXCEPT ![c] = [merged EXCEPT !.pc = "cb_entity"]]
                     /\ UNCHANGED <<tb, dispatched>>
                ELSE LET a == after_chunk(merged, tb, chunk_summaries)
                     IN  /\ calls' = [calls EXCEPT ![c] = a.call]
                         /\ tb' = a.buf
                         /\ dispatched' = Dispatch(merged, a.call)
    /\ UNCHANGED <<segVars, wsVars>>
    /\ UNCHANGED <<bufHistory, ingested, emitted, plFixed, complete_transcript>>

\* on_chunk_summarized returns in its worker thread (line 109)
ChunkCallbackReturns(c) ==
    /\ EventLoopFree
    /\ calls[c].pc = "cb_summary"
    /\ chunk_summaries' = chunk_summaries
    /\ IF on_entity_extracted
       THEN /\ calls' = [calls EXCEPT ![c].pc = "cb_entity"]
            /\ UNCHANGED <<tb, dispatched>>
       ELSE ReturnFromChunk(c)
    /\ UNCHANGED <<segVars, wsVars>>
    /\ UNCHANGED <<bufHistory, ingested, emitted, plFixed, all_entities,
                   complete_transcript>>

\* on_entity_extracted returns in its worker thread (line 112)
EntityCallbackReturns(c) ==
    /\ EventLoopFree
    /\ calls[c].pc = "cb_entity"
    /\ chunk_summaries' = chunk_summaries
    /\ ReturnFromChunk(c)
    /\ UNCHANGED <<segVars, wsVars>>
    /\ UNCHANGED <<bufHistory, ingested, emitted, plFixed, all_entities,
                   complete_transcript>>

\* the meta-summary returns (line 143) and process_text_async returns
MetaReturns(c) ==
    /\ EventLoopFree
    /\ calls[c].pc = "meta"
    /\ calls' = [calls EXCEPT
                   ![c] = [Leave(calls[c], "done") EXCEPT
                              !.final_summary =
                                  SomeText(generate_summary(calls[c].chunk))]]
    /\ UNCHANGED <<segVars, wsVars>>
    /\ UNCHANGED <<bufVars, plFixed, chunk_summaries, all_entities,
                   complete_transcript, dispatched>>

NextPipeline ==
    \E c \in 1..MaxCalls :
        \/ ProcessText(c)
        \/ SummaryReturns(c)
        \/ SummaryRaises(c)
        \/ NerReturns(c)
        \/ MergeChunk(c)
        \/ NerRaises(c)
        \/ ChunkCallbackReturns(c)
        \/ ChunkCallbackRaises(c)
        \/ EntityCallbackReturns(c)
        \/ EntityCallbackRaises(c)
        \/ MetaReturns(c)
        \/ MetaRaises(c)

SpecPipeline == InitPipeline /\ [][NextPipeline]_vars

\* RealtimeSummarizationPipeline.reset, called between two steps of the event
\* loop.  The calls in progress are not touched: they go on with the chunk
\* they hold.  The histories of the buffer start again with the buffer.
Reset ==
    /\ raised = "none"
    /\ EventLoopFree
    /\ nReset < MaxResets
    /\ tb' = clear(tb)
    /\ chunk_summaries' = <<>>
    /\ all_entities' = EmptyMap
    /\ complete_transcript' = <<>>
    /\ nReset' = nReset + 1
    /\ ingested' = <<>>
    /\ emitted' = <<>>
    /\ dispatched' = <<>>
    /\ UNCHANGED <<segVars, wsVars>>
    /\ UNCHANGED <<bufHistory, on_chunk_summarized, on_entity_extracted, calls>>

\* RealtimeSummarizationPipeline.get_results: the dict holds the lists and
\* the dict of the pipeline themselves, and the statistics of the buffer
get_results ==
    [chunk_summaries |-> chunk_summaries,
     entities |-> all_entities,
     transcript_parts |-> complete_transcript,
     buffer_stats |-> get_stats(tb)]

\* a reader of the pipeline can run: a coroutine, between two steps of the
\* event loop, or a callback in its worker thread (lines 109 and 112), which
\* runs beside the event loop
ReaderRuns ==
    \/ EventLoopFree
    \/ \E c \in 1..MaxCalls : calls[c].pc \in {"cb_summary", "cb_entity"}

\* a pipeline constructed with no callback
InitReset ==
    /\ InitPipeline
    /\ ~on_chunk_summarized
    /\ ~on_entity_extracted

NextReset ==
    \/ \E c \in 1..MaxCalls :
            \/ ProcessText(c)
            \/ SummaryReturns(c)
            \/ SummaryRaises(c)
            \/ NerReturns(c)
            \/ MergeChunk(c)
            \/ NerRaises(c)
            \/ MetaReturns(c)
            \/ MetaRaises(c)
    \/ Reset

\* a pipeline with no callback whose caller may also reset it
SpecReset == InitReset /\ [][NextReset]_vars

(* --------------------------- pipeline claims --------------------------- *)
\* a process_text_async call with is_final = True has completed
FinalCompleted == \E c \in 1..MaxCalls : calls[c].is_final /\ calls[c].pc = "done"

\* C10: once a process_text_async call with is_final = True has completed
\* the session is closed: every process_text_async call made afterwards fails
\* and leaves chunk_summaries, all_entities, complete_transcript and the
\* buffer unchanged.
C10ClosedSession ==
    [][\A c \in 1..MaxCalls :
          (FinalCompleted /\ calls[c].pc = "idle" /\ calls'[c].pc # "idle") =>
              /\ calls'[c].pc = "raised"
              /\ chunk_summaries' = chunk_summaries
              /\ all_entities' = all_entities
              /\ complete_transcript' = complete_transcript
              /\ tb' = tb]_vars

\* no process_text_async call has been made on the pipeline
SessionIdle == \A c \in 1..MaxCalls : calls[c].pc = "idle"

\* C11: reset is accepted only while the session is idle or closed: a first
\* reset made after a process_text_async call and before a final call has
\* completed changes nothing of the buffer, chunk_summaries, all_entities
\* and complete_transcript.
C11ResetRejected ==
    [][(nReset = 0 /\ nReset' = 1 /\ ~SessionIdle /\ ~FinalCompleted) =>
          /\ tb' = tb
          /\ chunk_summaries' = chunk_summaries
          /\ all_entities' = all_entities
          /\ complete_transcript' = complete_transcript]_vars

\* C12: a reset leaves the buffer as it was constructed (no word, both
\* counters 0, capacity and overlap as before) and chunk_summaries,
\* all_entities and complete_transcript empty; the first chunk result stored
\* after a reset has chunk_number 1.
C12ResetState ==
    [][/\ nReset' # nReset =>
            /\ tb' = TranscriptBuffer(argSize, argOverlap, settings).obj
            /\ tb'.buffer = <<>>
            /\ tb'.total_words = 0 /\ tb'.chunks_generated = 0
            /\ tb'.buffer_size = tb.buffer_size /\ tb'.overlap = tb.overlap
            /\ chunk_summaries' = <<>>
            /\ all_entities' = EmptyMap
            /\ complete_transcript' = <<>>
       /\ (nReset > 0 /\ chunk_summaries = <<>> /\ chunk_summaries' # <<>>) =>
            /\ Len(chunk_summaries') = 1
            /\ chunk_summaries'[1].chunk_number = 1]_vars

\* the first call, a final one, stored a chunk result and ended with its
\* summary; the pipeline was reset; the second call stored the chunk result of
\* the words it was fed after the reset
C12Witness ==
    /\ nReset = 1
    /\ calls[1].pc = "done" /\ calls[1].final_summary.text # <<>>
    /\ calls[2].pc = "done"
    /\ Len(complete_transcript) = 1
    /\ Len(chunk_summaries) = 1
    /\ chunk_summaries[1].chunk_number = 1
    /\ tb.total_words = 2

\* C13: in every reachable state, whatever the interleaving of calls, chunk
\* completions and failures, the i-th element of chunk_summaries has
\* chunk_number i: the numbers are 1, 2, ... with no duplicate and no gap.
C13ChunkNumbers ==
    \A i \in 1..Len(chunk_summaries) : chunk_summaries[i].chunk_number = i

\* two chunks of overlapping calls were stored, the one dispatched second first
C13Witness ==
    /\ Len(chunk_summaries) = 2
    /\ Len(dispatched) = 2
    /\ dispatched[1] # dispatched[2]
    /\ chunk_summaries[1].summary = generate_summary(dispatched[2])
    /\ chunk_summaries[2].summary = generate_summary(dispatched[1])

\* the count one entity list of a chunk result gives for the entity e
RECURSIVE ListCount(_, _)
ListCount(entity_list, e) ==
    IF entity_list = <<>> THEN 0
    ELSE (IF Head(entity_list).entity = e THEN Head(entity_list).count ELSE 0)
         + ListCount(Tail(entity_list), e)

\* the entity list the k-th stored chunk result has for the type t
ReportedList(k, t) ==
    LET by_type == chunk_summaries[k].entities.entities_by_type
    IN  IF t \in DOMAIN by_type THEN by_type[t] ELSE <<>>

\* the sum over the first k stored chunk results of the count for (t, e)
RECURSIVE ReportedCount(_, _, _)
ReportedCount(k, t, e) ==
    IF k = 0 THEN 0
    ELSE ReportedCount(k - 1, t, e) + ListCount(ReportedList(k, t), e)

\* some stored chunk result reports the entity e under the type t
Reported(t, e) ==
    \E k \in 1..Len(chunk_summaries) :
        \E j \in 1..Len(ReportedList(k, t)) : ReportedList(k, t)[j].entity = e

\* the entity types and the entity texts of the stored results and of
\* all_entities
SeenTypes ==
    DOMAIN all_entities \cup
    UNION {DOMAIN chunk_summaries[k].entities.entities_by_type :
              k \in 1..Len(chunk_summaries)}

SeenEntities ==
    UNION {DOMAIN all_entities[t] : t \in DOMAIN all_entities} \cup
    UNION {{ReportedList(k, t)[j].entity : j \in 1..Len(ReportedList(k, t))} :
              k \in 1..Len(chunk_summaries), t \in SeenTypes}

\* C14: in every state between two steps of the event loop, for every entity
\* type t and entity text e, all_entities[t][e] is the sum over the stored
\* chunk results of the chunk's count for (t, e), and e is a key of
\* all_entities[t] exactly when some stored chunk result reports it; the
\* totals therefore do not depend on the order the chunks completed in.
C14MergedCounts ==
    EventLoopFree =>
        \A t \in SeenTypes, e \in SeenEntities :
            /\ Reported(t, e) <=>
                   (t \in DOMAIN all_entities /\ e \in DOMAIN all_entities[t])
            /\ Reported(t, e) =>
                   all_entities[t][e] = ReportedCount(Len(chunk_summaries), t, e)

\* two stored chunk results report the same entity with different counts and
\* only one of them reports a second entity
C14Witness ==
    /\ EventLoopFree
    /\ Len(chunk_summaries) = 2
    /\ chunk_summaries[1].entities # chunk_summaries[2].entities
    /\ all_entities["PERSON"]["alice"] = 3
    /\ all_entities["ORG"]["acme"] = 1

\* the entities of the chunk results of a list, merged one after the other
RECURSIVE MergedOf(_)
MergedOf(summaries) ==
    IF summaries = <<>> THEN EmptyMap
    ELSE merge_entities(MergedOf(SubSeq(summaries, 1, Len(summaries) - 1)),
                        summaries[Len(summaries)].entities)

\* C15: whenever a reader can run, a coroutine of the event loop or a callback
\* in a worker thread, the result of get_results holds in "entities" exactly
\* the contributions of the chunk results it holds in "chunk_summaries": no
\* reader sees a chunk result that is stored and not merged yet.
C15ConsistentRead ==
    ReaderRuns => get_results.entities = MergedOf(get_results.chunk_summaries)

\* C16: a callback that fails does not abort the session: whatever way a call
\* leaves the await of on_chunk_summarized, it goes on to on_entity_extracted
\* when that callback is set, and it never leaves the await of a callback by
\* raising, so that the flush, the final summary and the later fragments are
\* processed as usual.
C16ObserverFailure ==
    [][\A c \in 1..MaxCalls :
          /\ (calls[c].pc = "cb_summary" /\ calls'[c].pc # "cb_summary") =>
                 /\ calls'[c].pc # "raised"
                 /\ on_entity_extracted => calls'[c].pc = "cb_entity"
          /\ (calls[c].pc = "cb_entity" /\ calls'[c].pc # "cb_entity") =>
                 calls'[c].pc # "raised"]_vars

\* C17: a failure of generate_summary or of extract_and_format does not abort
\* the session: a call never leaves the two awaits of _process_chunk by
\* raising, and when it has left them one more chunk result is stored, numbered
\* as the next one.
C17ModelFailure ==
    [][\A c \in 1..MaxCalls :
          (/\ calls[c].pc \in {"summarize", "ner"}
           /\ calls'[c].pc \notin {"summarize", "ner"}) =>
              /\ calls'[c].pc # "raised"
              /\ Len(chunk_summaries') = Len(chunk_summaries) + 1
              /\ chunk_summaries'[Len(chunk_summaries')].chunk_number =
                     Len(chunk_summaries) + 1]_vars

\* the summaries of the stored chunk results, in chunk_number order, joined
\* with single blanks
SummariesInOrder(summaries) ==
    Join([k \in 1..Len(summaries) |->
             summaries[CHOOSE i \in 1..Len(summaries) :
                          summaries[i].chunk_number = k].summary])

\* the step takes the call c into _generate_final_summary
EntersFinalSummary(c) ==
    /\ calls[c].pc \notin {"meta", "done", "raised"}
    /\ calls'[c].is_final
    /\ calls'[c].pc \in {"meta", "done"}

\* C18: when _generate_final_summary runs with exactly one stored chunk result
\* the final summary is that chunk's summary, with no further generate_summary
\* call; with more than one, generate_summary is called exactly once more, on
\* the summaries in chunk_number order joined with single blanks, and its
\* result is the final summary.
C18FinalSummary ==
    [][\A c \in 1..MaxCalls :
          /\ (EntersFinalSummary(c) /\ Len(chunk_summaries') = 1) =>
                 /\ calls'[c].pc = "done"
                 /\ calls'[c].final_summary =
                        SomeText(chunk_summaries'[1].summary)
          /\ (EntersFinalSummary(c) /\ Len(chunk_summaries') > 1) =>
                 /\ calls'[c].pc = "meta"
                 /\ calls'[c].chunk = SummariesInOrder(chunk_summaries')
          /\ (calls[c].pc = "meta" /\ calls'[c].pc \notin {"meta", "raised"}) =>
                 /\ calls'[c].pc = "done"
                 /\ calls'[c].final_summary =
                        SomeText(generate_summary(calls[c].chunk))]_vars

\* a first final call ended with one stored chunk result, whose summary is its
\* final summary; a second one ended with two, and its final summary is the
\* summary of the two summaries joined
C18Witness ==
    /\ Len(chunk_summaries) = 2
    /\ calls[1].is_final /\ calls[1].pc = "done"
    /\ calls[1].final_summary = SomeText(chunk_summaries[1].summary)
    /\ calls[2].is_final /\ calls[2].pc = "done"
    /\ calls[2].final_summary =
           SomeText(generate_summary(chunk_summaries[1].summary \o <<SP>>
                                        \o chunk_summaries[2].summary))

\* C19: a final call with an empty text, made on a session that has received
\* no word, returns at once: no chunk is handed to generate_summary or
\* extract_and_format, chunk_summaries and all_entities stay empty, and the
\* final summary is the empty string.
C19EmptySession ==
    [][\A c \in 1..MaxCalls :
          (/\ calls[c].pc = "idle" /\ calls'[c].pc # "idle"
           /\ calls'[c].is_final
           /\ ingested' = <<>>) =>
              /\ calls'[c].pc = "done"
              /\ calls'[c].final_summary = SomeText(<<>>)
              /\ dispatched' = <<>>
              /\ chunk_summaries' = <<>>
              /\ all_entities' = EmptyMap]_vars

\* an empty fragment, then the final call with an empty text, has returned
C19Witness ==
    /\ ingested = <<>>
    /\ complete_transcript = << <<>>, <<>> >>
    /\ calls[1].pc = "done" /\ ~calls[1].is_final
    /\ calls[2].pc = "done" /\ calls[2].is_final
    /\ calls[2].final_summary = SomeText(<<>>)
    /\ chunk_summaries = <<>>
    /\ all_entities = EmptyMap

\* C20: with overlapping process_text_async calls the chunk results are still
\* stored in the order the buffer gave the chunks out: the chunk result with
\* chunk_number k is the result of the k-th chunk handed to _process_chunk.
C20EmissionOrder ==
    \A i \in 1..Len(chunk_summaries) :
        LET k == chunk_summaries[i].chunk_number
        IN  /\ k \in 1..Len(dispatched)
            /\ chunk_summaries[i].summary = generate_summary(dispatched[k])
            /\ chunk_summaries[i].word_count = Len(Split(dispatched[k]))

\* C23: the flushed remainder of a final call is processed as one further
\* chunk, and the chunk result stored for it has chunk_number equal to the
\* buffer's chunks_generated + 1; the call goes on to the final summary only
\* from the end of that _process_chunk.
C23FlushedChunk ==
    [][\A c \in 1..MaxCalls :
          (/\ calls[c].stage = "flush"
           /\ calls[c].pc = "ner" /\ calls'[c].pc = "merge") =>
              /\ Len(chunk_summaries') = Len(chunk_summaries) + 1
              /\ chunk_summaries'[Len(chunk_summaries')].chunk_number =
                     tb.chunks_generated + 1]_vars

\* C28: when process_text_async calls overlap, a call enters
\* _generate_final_summary only when no chunk handed to _process_chunk by
\* another call is still waiting for its summary or its entities, so that no
\* emitted chunk is missing from the final summary.
C28FinalAfterAllChunks ==
    [][\A c \in 1..MaxCalls :
          EntersFinalSummary(c) =>
              \A b \in 1..MaxCalls \ {c} :
                  calls'[b].pc \notin {"summarize", "ner"}]_vars

\* the words (by ingestion index) of the chunk a stored chunk result is about:
\* the summary tells the first word of the chunk, word_count their number
WordsOf(result) ==
    IF result.summary = <<>> THEN {}
    ELSE LET first == result.summary[1] - 100
         IN  first .. (first + result.word_count - 1)

\* C29: when a final process_text_async call returns and no other call is in
\* progress, the buffer holds no word and every word ingested occurs in the
\* chunk of at least one stored chunk result.
C29NothingLost ==
    [][\A c \in 1..MaxCalls :
          (/\ calls[c].pc \notin {"done", "raised"}
           /\ calls'[c].pc = "done" /\ calls'[c].is_final
           /\ \A b \in 1..MaxCalls : ~InProgress(calls'[b])) =>
              /\ tb'.buffer = <<>>
              /\ get_stats(tb').current_buffer_size = 0
              /\ \A i \in 1..Len(ingested') :
                     \E k \in 1..Len(chunk_summaries') :
                         i \in WordsOf(chunk_summaries'[k])]_vars

(* ------------------------------ segmenter ------------------------------ *)
\* The text between the brackets of a speaker line is a record: form tells
\* how it is written ("empty" for the empty string, "HM" for h:m, "HMp" for
\* h:m followed by AM or PM, "junk" for anything else), h, m and p are what
\* is written.  NoStamp is the None of a line with no bracket.
NoStamp == [none |-> TRUE, form |-> "", h |-> 0, m |-> 0, p |-> ""]
Stamp(form, h, m, p) == [none |-> FALSE, form |-> form, h |-> h, m |-> m, p |-> p]

\* "if segment.timestamp": None and the empty string are false
Truthy(ts) == ~ts.none /\ ts.form # "empty"

\* _parse_timestamp for the 12-hour and the 24-hour format without seconds:
\* the minutes since midnight of the current date, or ValueError
parse_timestamp(ts) ==
    IF ts.form = "HMp" /\ ts.h \in 1..12 /\ ts.m \in 0..59 /\ ts.p \in {"AM", "PM"}
    THEN [raised |-> FALSE,
          t |-> ((ts.h % 12) + (IF ts.p = "PM" THEN 12 ELSE 0)) * 60 + ts.m]
    ELSE IF ts.form = "HM" /\ ts.h \in 0..23 /\ ts.m \in 0..59
         THEN [raised |-> FALSE, t |-> ts.h * 60 + ts.m]
         ELSE [raised |-> TRUE, t |-> 0]

\* datetime.isoformat of a time of the current date; the string "unknown"
isoformat(t) == [unknown |-> FALSE, hour |-> t \div 60, minute |-> t % 60]
Unknown == [unknown |-> TRUE, hour |-> 0, minute |-> 0]

\* a transcript text is the sequence of its speaker lines; segment_by_speaker
\* makes one TranscriptSegment of each, numbered from 0
segment_by_speaker(text) ==
    [k \in 1..Len(text) |->
        [speaker |-> text[k].speaker, text |-> text[k].text,
         timestamp |-> text[k].timestamp, start_line |-> k - 1]]

\* TranscriptSegment.to_dict
to_dict(segment) ==
    [speaker |-> segment.speaker, text |-> segment.text,
     timestamp |-> segment.timestamp, start_line |-> segment.start_line]

\* the local variables of segment_by_time before its loop (lines 98-100)
LoopStart ==
    [time_windows |-> <<>>, current_window |-> <<>>,
     window_start |-> [none |-> TRUE, t |-> 0]]

\* the window that lines 116-121 and 134-139 append
Window(st) ==
    [window_start |-> IF st.window_start.none THEN Unknown
                      ELSE isoformat(st.window_start.t),
     segments |-> st.current_window]

\* the body of the loop with > written for >=
loop_body_strict(st, segment, window_minutes) ==
    LET joined == [st EXCEPT !.current_window = Append(@, to_dict(segment))]
        parsed == parse_timestamp(segment.timestamp)
    IN  IF ~Truthy(segment.timestamp) \/ parsed.raised THEN joined
        ELSE LET anchored == IF st.window_start.none
                             THEN [st EXCEPT !.window_start =
                                      [none |-> FALSE, t |-> parsed.t]]
                             ELSE st
             IN  IF parsed.t - anchored.window_start.t > window_minutes
                 THEN [time_windows |->
                           IF anchored.current_window # <<>>
                           THEN Append(anchored.time_windows, Window(anchored))
                           ELSE anchored.time_windows,
                       current_window |-> <<to_dict(segment)>>,
                       window_start |-> [none |-> FALSE, t |-> parsed.t]]
                 ELSE [anchored EXCEPT
                          !.current_window = Append(@, to_dict(segment))]

\* the body of the loop of segment_by_time for one segment (lines 103-130)
loop_body(st, segment, window_minutes) ==
    LET joined == [st EXCEPT !.current_window = Append(@, to_dict(segment))]
        parsed == parse_timestamp(segment.timestamp)
    IN  IF ~Truthy(segment.timestamp) \/ parsed.raised THEN joined
        ELSE LET anchored == IF st.window_start.none
                             THEN [st EXCEPT !.window_start =
                                      [none |-> FALSE, t |-> parsed.t]]
                             ELSE st
             IN  IF parsed.t - anchored.window_start.t >= window_minutes
                 THEN [time_windows |->
                           IF anchored.current_window # <<>>
                           THEN Append(anchored.time_windows, Window(anchored))
                           ELSE anchored.time_windows,
                       current_window |-> <<to_dict(segment)>>,
                       window_start |-> [none |-> FALSE, t |-> parsed.t]]
                 ELSE [anchored EXCEPT
                          !.current_window = Append(@, to_dict(segment))]

\* the loop of segment_by_time over the first k segments
RECURSIVE Loop(_, _, _)
Loop(segments, k, window_minutes) ==
    IF k = 0 THEN LoopStart
    ELSE loop_body(Loop(segments, k - 1, window_minutes), segments[k],
                   window_minutes)

\* segment_by_time
segment_by_time(text, window_minutes) ==
    LET segments == segment_by_speaker(text)
    IN  IF segments = <<>>
           \/ ~\E k \in 1..Len(segments) : Truthy(segments[k].timestamp)
        THEN <<[window |-> "full", content |-> text]>>
        ELSE LET st == Loop(segments, Len(segments), window_minutes)
             IN  IF st.current_window # <<>>
                 THEN Append(st.time_windows, Window(st))
                 ELSE st.time_windows

\* A string of parse_teams_format is the sequence of its pieces; BlankLine is
\* the piece "\n\n".  A field of a message is [has |-> FALSE, ...] when the
\* message has no such key.  A timestamp value tells its form ("iso" for an
\* ISO date-time, "isoZ" for one that ends in Z, "empty" for the empty
\* string, "junk" for anything else), its hour and minute and, in raw, the
\* string itself.
BlankLine == "\n\n"
NoField == [has |-> FALSE, val |-> ""]
Field(v) == [has |-> TRUE, val |-> v]
NoTime == [has |-> FALSE, form |-> "empty", h |-> 0, m |-> 0, raw |-> ""]
Time(form, h, m, raw) ==
    [has |-> TRUE, form |-> form, h |-> h, m |-> m, raw |-> raw]

\* a number written with two digits
TwoDigits(n) == IF n < 10 THEN "0" \o ToString(n) ELSE ToString(n)

\* datetime.strftime("%I:%M %p")
strftime(h, m) ==
    TwoDigits(IF h % 12 = 0 THEN 12 ELSE h % 12) \o ":" \o TwoDigits(m) \o " "
        \o (IF h < 12 THEN "AM" ELSE "PM")

\* lines 160-174 of parse_teams_format: the part written for one message
transcript_part(message) ==
    LET speaker   == IF message.speaker.has THEN message.speaker.val ELSE "Unknown"
        text      == IF message.text.has THEN message.text.val ELSE ""
        timestamp == message.timestamp
    IN  IF timestamp.has /\ timestamp.form # "empty"
        THEN LET formatted_time ==
                     IF timestamp.form \in {"iso", "isoZ"}
                     THEN strftime(timestamp.h, timestamp.m)
                     ELSE timestamp.raw
             IN  <<"[", formatted_time, "] ", speaker, ": ", text>>
        ELSE <<speaker, ": ", text>>

\* "\n\n".join(transcript_parts)
JoinBlank(parts) ==
    Flatten([k \in 1..Len(parts) |->
                IF k = 1 THEN parts[k] ELSE <<BlankLine>> \o parts[k]])

\* parse_teams_format that also refuses an export with no message
parse_teams_format_refuse_empty(teams_data) ==
    IF ~teams_data.has_messages \/ teams_data.messages = <<>>
    THEN [raised |-> "ValueError", text |-> <<>>]
    ELSE [raised |-> "none",
          text |-> JoinBlank([k \in 1..Len(teams_data.messages) |->
                                 transcript_part(teams_data.messages[k])])]

\* parse_teams_format
parse_teams_format(teams_data) ==
    IF ~teams_data.has_messages
    THEN [raised |-> "ValueError", text |-> <<>>]
    ELSE [raised |-> "none",
          text |-> JoinBlank([k \in 1..Len(teams_data.messages) |->
                                 transcript_part(teams_data.messages[k])])]

\* sequences of at most n elements of a set
SeqsUpTo(S, n) == UNION {[1..k -> S] : k \in 0..n}

\* what stands between the brackets of the speaker lines of the transcripts:
\* nothing, the empty string, 10:00, 10:03, 10:06, the unparseable 25:00,
\* 10:04 AM, and 12:01 AM, which is earlier than every other one
Stamps ==
    {NoStamp, Stamp("empty", 0, 0, ""), Stamp("HM", 10, 0, ""),
     Stamp("HM", 10, 3, ""), Stamp("HM", 10, 6, ""), Stamp("HM", 25, 0, ""),
     Stamp("HMp", 10, 4, "AM"), Stamp("HMp", 12, 1, "AM")}

\* the transcript with the given timestamps: the text of a line is its number
TranscriptOf(stamps) ==
    [k \in 1..Len(stamps) |->
        [timestamp |-> stamps[k], speaker |-> "Speaker", text |-> k]]

Transcripts == {TranscriptOf(stamps) : stamps \in SeqsUpTo(Stamps, MaxSegments)}

WindowSizes == {3, 5}

\* the messages of the exports
Messages ==
    [speaker : {NoField, Field("John Doe")},
     text : {NoField, Field("Hello everyone"), Field("Hi John")},
     timestamp : {NoTime, Time("empty", 0, 0, ""),
                  Time("isoZ", 14, 30, "2024-01-15T14:30:00Z"),
                  Time("junk", 0, 0, "10am")}]

\* exports without a messages field and exports with one
TeamsExports ==
    {[has_messages |-> FALSE, messages |-> <<>>]} \cup
    {[has_messages |-> TRUE, messages |-> ms] : ms \in SeqsUpTo(Messages, MaxMessages)}

\* the state before any call of the segmenter
InitSegmenter ==
    /\ settings = DeclaredSettings
    /\ argSize = NoInt
    /\ argOverlap = NoInt
    /\ raised = "none"
    /\ tb = NoBuffer
    /\ lastOp = "new"
    /\ ret = NoText
    /\ pendingBefore = <<>>
    /\ ingested = <<>>
    /\ emitted = <<>>
    /\ nFlush = 0
    /\ NoPipeline
    /\ NoSegmenter
    /\ NoServer

\* a call segment_by_time(text, window_minutes), the first call made
SegmentByTime ==
    /\ segCalls = 0
    /\ segCalls' = 1
    /\ \E text \in Transcripts, window_minutes \in WindowSizes :
         /\ segOp' = "segment_by_time"
         /\ segArg' = [text |-> text, window_minutes |-> window_minutes]
         /\ segRet' = segment_by_time(text, window_minutes)
    /\ UNCHANGED <<bufVars, plVars, wsVars>>

\* a call parse_teams_format(teams_data): the first call made, or the call
\* that follows a call that raised
ParseTeamsFormat ==
    /\ \/ segCalls = 0
       \/ /\ segCalls < MaxSegCalls
          /\ segOp = "parse_teams_format"
          /\ segRet.raised # "none"
    /\ segCalls' = segCalls + 1
    /\ \E teams_data \in TeamsExports :
         /\ segOp' = "parse_teams_format"
         /\ segArg' = teams_data
         /\ segRet' = parse_teams_format(teams_data)
    /\ UNCHANGED <<bufVars, plVars, wsVars>>

NextSegmenter == SegmentByTime \/ ParseTeamsFormat

SpecSegmenter == InitSegmenter /\ [][NextSegmenter]_vars

(* --------------------------- WebSocketServer --------------------------- *)
(* handle_client, register_client, unregister_client, broadcast_to_meeting *)
(* and get_stats of src/streaming/websocket_server.py.  The coroutines run *)
(* on one event loop: what runs between two awaits is one step.  The calls *)
(* await self.register_client and await self.unregister_client do not      *)
(* suspend, since these coroutines await nothing.                          *)

Meetings == {"m1", "m2"}

\* path.strip("/").split("/") of the paths that websockets connect with
Paths == {<<"meeting", "m1">>, <<"meeting", "m2">>, <<"health">>, <<"room", "m1">>}

\* the set of a meeting, and no client for a meeting that is not in the map
ClientsOf(conns, meeting_id) ==
    IF meeting_id \in DOMAIN conns THEN conns[meeting_id] ELSE {}

\* register_client: the map it leaves
register_client(conns, websocket, meeting_id) ==
    LET created == [m \in DOMAIN conns \cup {meeting_id} |->
                       IF m \in DOMAIN conns THEN conns[m] ELSE {}]
    IN  [created EXCEPT ![meeting_id] = @ \cup {websocket}]

\* unregister_client that leaves the empty set of a meeting in the map
unregister_client_keep_empty(conns, websocket, meeting_id) ==
    IF meeting_id \in DOMAIN conns
    THEN [conns EXCEPT ![meeting_id] = @ \ {websocket}]
    ELSE conns

\* unregister_client: the map it leaves
unregister_client(conns, websocket, meeting_id) ==
    IF meeting_id \in DOMAIN conns
    THEN LET discarded == [conns EXCEPT ![meeting_id] = @ \ {websocket}]
         IN  IF discarded[meeting_id] = {}
             THEN [m \in DOMAIN conns \ {meeting_id} |-> conns[m]]
             ELSE discarded
    ELSE conns

\* lines 99-100: unregister_client for each websocket of disconnected
RECURSIVE UnregisterAll(_, _, _)
UnregisterAll(conns, disconnected, meeting_id) ==
    IF disconnected = {} THEN conns
    ELSE LET websocket == CHOOSE w \in disconnected : TRUE
         IN  UnregisterAll(unregister_client(conns, websocket, meeting_id),
                           disconnected \ {websocket}, meeting_id)

\* sum(len(conns) for conns in connections.values())
RECURSIVE SumLen(_, _)
SumLen(conns, meetings) ==
    IF meetings = {} THEN 0
    ELSE LET m == CHOOSE m \in meetings : TRUE
         IN  Cardinality(conns[m]) + SumLen(conns, meetings \ {m})

\* WebSocketServer.get_stats
WebSocketServer_get_stats(conns) ==
    [active_meetings |-> Cardinality(DOMAIN conns),
     total_connections |-> SumLen(conns, DOMAIN conns),
     meetings |-> [m \in DOMAIN conns |-> Cardinality(conns[m])]]

\* the set that the iterator of line 91 holds is the set of the map until
\* unregister_client deletes the meeting; a meeting registered again after
\* that has a new set
Detached(b, conns) ==
    b.detached \/ (b.pc = "send" /\ b.meeting_id \notin DOMAIN conns)

\* broadcast_to_meeting is over: it returned or an error escaped it
Finish(b, how, error) ==
    [b EXCEPT !.pc = how, !.error = error, !.current = 0, !.si_used = 0,
              !.detached = FALSE]

\* handle_client is called for a new connection: an invalid path closes the
\* connection and returns (112-117); otherwise the websocket is registered
\* and the handler is suspended in the welcome send or in the message loop
\* (119-144)
HandleClient(websocket, parts) ==
    /\ client[websocket].pc = "new"
    /\ IF Len(parts) < 2 \/ parts[1] # "meeting"
       THEN /\ client' = [client EXCEPT ![websocket].pc = "ended"]
            /\ UNCHANGED <<connections, bc>>
       ELSE LET meeting_id == parts[2]
                conns == register_client(connections, websocket, meeting_id)
            IN  /\ connections' = conns
                /\ client' = [client EXCEPT ![websocket] =
                                  [pc |-> "connected", meeting_id |-> meeting_id]]
                /\ bc' = [bc EXCEPT !.detached = Detached(bc, conns)]
    /\ UNCHANGED <<nBroadcast, bufVars, plVars, segVars>>

\* the handler leaves the try statement, because the connection closed or a
\* send of the handler failed, and the finally clause unregisters the
\* websocket (146-149)
ClientLeaves(websocket) ==
    /\ client[websocket].pc = "connected"
    /\ LET conns == unregister_client(connections, websocket,
                                      client[websocket].meeting_id)
       IN  /\ connections' = conns
           /\ bc' = [bc EXCEPT !.detached = Detached(bc, conns)]
    /\ client' = [client EXCEPT ![websocket] = [pc |-> "ended", meeting_id |-> ""]]
    /\ UNCHANGED <<nBroadcast, bufVars, plVars, segVars>>

\* lines 98-102, when the loop of line 91 is over: the websockets of
\* disconnected are unregistered and the size of the set of the meeting is
\* logged, which raises KeyError when the meeting is not in the map
AfterLoop(b) ==
    LET conns == UnregisterAll(connections, b.disconnected, b.meeting_id)
    IN  /\ connections' = conns
        /\ bc' = IF b.meeting_id \in DOMAIN conns
                 THEN Finish(b, "returned", "none")
                 ELSE Finish(b, "raised", "KeyError")

\* the for statement of line 91 asks the iterator of the set for the next
\* websocket.  The iterator raises RuntimeError when the size of its set is
\* not the size the set had when the iteration started.  Otherwise it
\* yields a websocket of the set that it has not yielded; a websocket added
\* during the iteration is yielded or not, depending on its place in the
\* hash table
NextWebsocket(b) ==
    LET live == IF b.detached THEN {} ELSE ClientsOf(connections, b.meeting_id)
        todo == live \ (b.sent \cup b.disconnected)
    IN  IF Cardinality(live) # b.si_used
        THEN /\ bc' = Finish(b, "raised", "RuntimeError")
             /\ UNCHANGED connections
        ELSE \/ /\ \E websocket \in todo : bc' = [b EXCEPT !.current = websocket]
                /\ UNCHANGED connections
             \/ /\ todo \cap b.started = {}
                /\ AfterLoop(b)

\* broadcast_to_meeting is called: it returns when the meeting has no
\* client (78-83), and otherwise is suspended in the send to the first
\* websocket of the set (85-93)
BroadcastToMeeting(meeting_id) ==
    /\ bc.pc # "send"
    /\ nBroadcast < MaxBroadcasts
    /\ nBroadcast' = nBroadcast + 1
    /\ IF ClientsOf(connections, meeting_id) = {}
       THEN bc' = [NoBroadcast EXCEPT !.pc = "returned", !.meeting_id = meeting_id]
       ELSE \E websocket \in connections[meeting_id] :
                bc' = [NoBroadcast EXCEPT
                          !.pc = "send", !.meeting_id = meeting_id,
                          !.si_used = Cardinality(connections[meeting_id]),
                          !.started = connections[meeting_id],
                          !.current = websocket]
    /\ UNCHANGED <<connections, client, bufVars, plVars, segVars>>

\* the send of line 93 returns; a send to a websocket whose connection is
\* over never does
SendReturns ==
    /\ bc.pc = "send"
    /\ client[bc.current].pc = "connected"
    /\ NextWebsocket([bc EXCEPT !.sent = @ \cup {bc.current}])
    /\ UNCHANGED <<client, nBroadcast, bufVars, plVars, segVars>>

\* the send of line 93 raises and the websocket is added to disconnected
\* (94-96)
SendRaises ==
    /\ bc.pc = "send"
    /\ NextWebsocket([bc EXCEPT !.disconnected = @ \cup {bc.current}])
    /\ UNCHANGED <<client, nBroadcast, bufVars, plVars, segVars>>

\* the state of a server after __init__
InitServer == InitSegmenter

NextServer ==
    \/ \E websocket \in Clients, parts \in Paths : HandleClient(websocket, parts)
    \/ \E websocket \in Clients : ClientLeaves(websocket)
    \/ \E meeting_id \in Meetings : BroadcastToMeeting(meeting_id)
    \/ SendReturns
    \/ SendRaises

SpecServer == InitServer /\ [][NextServer]_vars

(* --------------------------- segmenter claims -------------------------- *)
\* the segment carries a timestamp that _parse_timestamp accepts
Parseable(segment) ==
    Truthy(segment.timestamp) /\ ~parse_timestamp(segment.timestamp).raised

\* the time of a segment with a parseable timestamp
TimeOf(segment) == parse_timestamp(segment.timestamp).t

\* the segments of a transcript, as the windows hold them
SegmentDicts(text) ==
    [k \in 1..Len(text) |-> to_dict(segment_by_speaker(text)[k])]

\* C21: when the transcript has segments and none of them carries a parseable
\* timestamp, whether they have none or only unparseable ones, segment_by_time
\* returns exactly one window, with window_start "unknown", that holds all
\* the segments in their order.
C21UnknownWindow ==
    (/\ segOp = "segment_by_time"
     /\ segArg.text # <<>>
     /\ \A k \in 1..Len(segArg.text) :
            ~Parseable(segment_by_speaker(segArg.text)[k])) =>
        segRet = <<[window_start |-> Unknown,
                    segments |-> SegmentDicts(segArg.text)]>>

\* the segments of the windows, one window after the other
AllSegments(windows) ==
    Flatten([j \in 1..Len(windows) |-> windows[j].segments])

\* the anchor of a window: the time of its first segment with a parseable
\* timestamp
Anchor(window) ==
    LET first == CHOOSE i \in 1..Len(window.segments) :
                     /\ Parseable(window.segments[i])
                     /\ \A h \in 1..(i - 1) : ~Parseable(window.segments[h])
    IN  TimeOf(window.segments[first])

\* the transcript of the scenario: lines at 10:00, 10:03 and 10:06
ScenarioTranscript ==
    TranscriptOf(<<Stamp("HM", 10, 0, ""), Stamp("HM", 10, 3, ""),
                   Stamp("HM", 10, 6, "")>>)

\* C24: for a transcript with a parseable timestamp, the windows hold the
\* segments in their order; the anchor of a window is its first parseable
\* timestamp and is its window_start; a segment with a parseable timestamp t
\* is in the open window when t - anchor < window_minutes; every window but
\* the first starts with a segment whose timestamp is parseable and at least
\* window_minutes after the anchor of the window before, so that a segment
\* with no or an unparseable timestamp never opens a window.  For lines at
\* 10:00, 10:03, 10:06 and window_minutes = 5 the windows are [10:00, 10:03]
\* and [10:06].
C24Windows ==
    (/\ segOp = "segment_by_time"
     /\ \E k \in 1..Len(segArg.text) :
            Parseable(segment_by_speaker(segArg.text)[k])) =>
        LET windows == segRet
            size    == segArg.window_minutes
        IN  /\ AllSegments(windows) = SegmentDicts(segArg.text)
            /\ \A j \in 1..Len(windows) :
                   /\ \E i \in 1..Len(windows[j].segments) :
                          Parseable(windows[j].segments[i])
                   /\ windows[j].window_start = isoformat(Anchor(windows[j]))
                   /\ \A i \in 1..Len(windows[j].segments) :
                          Parseable(windows[j].segments[i]) =>
                              TimeOf(windows[j].segments[i]) - Anchor(windows[j])
                                  < size
                   /\ j > 1 =>
                          /\ Parseable(windows[j].segments[1])
                          /\ TimeOf(windows[j].segments[1])
                                 - Anchor(windows[j - 1]) >= size
            /\ (segArg.text = ScenarioTranscript /\ size = 5) =>
                   /\ Len(windows) = 2
                   /\ windows[1].segments =
                          SubSeq(SegmentDicts(ScenarioTranscript), 1, 2)
                   /\ windows[2].segments =
                          SubSeq(SegmentDicts(ScenarioTranscript), 3, 3)

\* segment_by_time has grouped the lines at 10:00, 10:03 and 10:06 with
\* window_minutes = 5 in two windows, which start at 10:00 and at 10:06
C24Witness ==
    /\ segOp = "segment_by_time"
    /\ segArg.text = ScenarioTranscript
    /\ segArg.window_minutes = 5
    /\ Len(segRet) = 2
    /\ segRet[1].window_start = isoformat(600)
    /\ segRet[2].window_start = isoformat(606)

\* C25: for every transcript and every window_minutes > 0 the windows that
\* segment_by_time returns partition the segments: the windows hold every
\* segment exactly once, in the order of the transcript, no window is empty,
\* and the window_start values of successive windows do not decrease.
C25Partition ==
    segOp = "segment_by_time" =>
        /\ \A j \in 1..Len(segRet) :
               /\ DOMAIN segRet[j] = {"window_start", "segments"}
               /\ segRet[j].segments # <<>>
        /\ AllSegments(segRet) = SegmentDicts(segArg.text)
        /\ \A j \in 1..(Len(segRet) - 1) :
               /\ ~segRet[j].window_start.unknown
               /\ ~segRet[j + 1].window_start.unknown
               /\ segRet[j].window_start.hour * 60 + segRet[j].window_start.minute
                      <= segRet[j + 1].window_start.hour * 60
                             + segRet[j + 1].window_start.minute

\* the lines of an output text: what stands between the blank lines
RECURSIVE OutputLines(_)
OutputLines(text) ==
    IF text = <<>> THEN <<>>
    ELSE IF \E i \in 1..Len(text) : text[i] = BlankLine
    THEN LET i == CHOOSE i \in 1..Len(text) :
                      /\ text[i] = BlankLine
                      /\ \A h \in 1..(i - 1) : text[h] # BlankLine
         IN  <<SubSeq(text, 1, i - 1)>>
                 \o OutputLines(SubSeq(text, i + 1, Len(text)))
    ELSE <<text>>

\* an output line is the line of a message: it ends with the speaker of the
\* message, or Unknown, a colon and the text of the message
LineOf(line, message) ==
    /\ Len(line) >= 3
    /\ SubSeq(line, Len(line) - 2, Len(line)) =
           << IF message.speaker.has THEN message.speaker.val ELSE "Unknown",
              ": ",
              IF message.text.has THEN message.text.val ELSE "" >>

\* C22: parse_teams_format raises ValueError when the export has no messages
\* field, and otherwise returns one output line per message, in the order of
\* the messages; this holds of every call, the call that follows a call that
\* raised included, so that the result depends on the export alone.
C22TeamsFormat ==
    segOp = "parse_teams_format" =>
        IF ~segArg.has_messages
        THEN segRet.raised = "ValueError"
        ELSE /\ segRet.raised = "none"
             /\ Len(OutputLines(segRet.text)) = Len(segArg.messages)
             /\ \A k \in 1..Len(segArg.messages) :
                    LineOf(OutputLines(segRet.text)[k], segArg.messages[k])

\* the call that followed a call that raised has returned the two lines of an
\* export of two different messages
C22Witness ==
    /\ segOp = "parse_teams_format"
    /\ segCalls = 2
    /\ segArg.has_messages
    /\ Len(segArg.messages) = 2
    /\ segArg.messages[1] # segArg.messages[2]
    /\ segRet.raised = "none"
    /\ Len(OutputLines(segRet.text)) = 2

(* ------------------------ WebSocketServer claims ------------------------ *)

\* C26: whatever the outcomes of the sends of a broadcast_to_meeting call,
\* the failure of every send included, the step that ends the loop over the
\* clients returns from the call with no error, unregisters the clients
\* whose send failed and leaves the others registered.
C26SendOutcomes ==
    [][(/\ bc.pc = "send"
        /\ bc'.pc \in {"returned", "raised"}
        /\ bc'.error # "RuntimeError") =>
           /\ bc'.pc = "returned"
           /\ bc'.error = "none"
           /\ ClientsOf(connections', bc.meeting_id) =
                  ClientsOf(connections, bc.meeting_id) \ bc'.disconnected
           /\ bc'.sent \cap ClientsOf(connections, bc.meeting_id)
                  \subseteq ClientsOf(connections', bc.meeting_id)]_vars

\* C27: a client registered or unregistered for the meeting while
\* broadcast_to_meeting is suspended in a send does not make the broadcast
\* fail: the call returns, and every client that was registered for the
\* meeting from the start of the broadcast to its end has been sent the
\* message.
C27ConcurrentChange ==
    (bc.pc \in {"returned", "raised"} /\ bc.error # "KeyError") =>
        /\ bc.pc = "returned"
        /\ \A websocket \in bc.started :
               websocket \in ClientsOf(connections, bc.meeting_id) =>
                   websocket \in bc.sent

\* the sum of the counts of the meetings
RECURSIVE SumCounts(_, _)
SumCounts(counts, meetings) ==
    IF meetings = {} THEN 0
    ELSE LET m == CHOOSE m \in meetings : TRUE
         IN  counts[m] + SumCounts(counts, meetings \ {m})

\* the websocket is in the set of no meeting
InNoSet(websocket) ==
    \A m \in DOMAIN connections : websocket \notin connections[m]

\* C30: in every state between two steps of the server every meeting of the
\* connections map has a client, a websocket whose handle_client has ended
\* or that a broadcast has unregistered is in no set, and get_stats reports
\* a total_connections that is the sum of the counts of its meetings, and
\* as many active meetings as the map has.
C30Registry ==
    /\ \A m \in DOMAIN connections : connections[m] # {}
    /\ \A websocket \in Clients :
           client[websocket].pc = "ended" => InNoSet(websocket)
    /\ (bc.pc \in {"returned", "raised"} /\ bc.error # "RuntimeError") =>
           \A websocket \in bc.disconnected : InNoSet(websocket)
    /\ LET stats == WebSocketServer_get_stats(connections)
       IN  /\ stats.total_connections =
                  SumCounts(stats.meetings, DOMAIN stats.meetings)
           /\ stats.active_meetings = Cardinality(DOMAIN connections)
           /\ \A m \in DOMAIN stats.meetings : stats.meetings[m] >= 1

\* a broadcast has returned after it unregistered a client whose send
\* failed; the handle_client of a client it sent the message to has ended
\* since, which removed the meeting from the map; one client of the other
\* meeting is left
C30Witness ==
    /\ bc.pc = "returned"
    /\ bc.disconnected # {}
    /\ \E websocket \in bc.sent : client[websocket].pc = "ended"
    /\ bc.meeting_id \notin DOMAIN connections
    /\ WebSocketServer_get_stats(connections).total_connections = 1
====
